---------------------------- MODULE Spec2Model ----------------------------
(***************************************************************************)
(* Request shaping of the Cloudflare MCP worker (src/src/index.ts) and the *)
(* zone listing (src/src/cloudflare/zones.ts).                             *)
(*                                                                         *)
(* One tool invocation is an async method of MyWorker: a synchronous       *)
(* shaping prefix (which may throw), one suspension at the awaited call of *)
(* the upstream helper, and the delivery of the helper's result or error   *)
(* to the caller.                                                          *)
(***************************************************************************)
EXTENDS Integers, Sequences, FiniteSets, TLC

VARIABLES
    pc,        \* per invocation: "idle", "awaiting", "returned", "threw"
    call,      \* per invocation: the tool and its arguments
    requests,  \* per invocation: the upstream requests issued so far, in order
    response,  \* per invocation: how the awaited upstream call settled
    outcome    \* per invocation: what the caller received

vars == <<pc, call, requests, response, outcome>>

(***************************************************************************)
(* Bounds of the model.                                                    *)
(***************************************************************************)
MaxKeys == 3      \* longest well-formed array of key names a caller encodes
MaxEntries == 2   \* longest well-formed array of objects a caller encodes
MaxTokens == 2    \* longest arbitrary lexeme sequence passed as a JSON string
MaxZones == 2     \* most zones the upstream returns in one page

(***************************************************************************)
(* JavaScript values, tagged by typeof.                                    *)
(***************************************************************************)
Undefined == [t |-> "undefined"]
Null == [t |-> "null"]
Bool(b) == [t |-> "boolean", v |-> b]
Num(n) == [t |-> "number", v |-> n]
Str(s) == [t |-> "string", v |-> s]
Arr(q) == [t |-> "array", v |-> q]
Obj(f) == [t |-> "object", v |-> f]

\* ToBoolean of the language: what `x ? a : b` and `x && y` test.
Truthy(x) ==
    CASE x.t = "undefined" -> FALSE
      [] x.t = "null" -> FALSE
      [] x.t = "boolean" -> x.v
      [] x.t = "number" -> x.v # 0
      [] x.t = "string" -> Len(x.v) > 0
      [] OTHER -> TRUE

(***************************************************************************)
(* JSON texts are sequences of lexemes; JSON.parse is a recursive descent  *)
(* over them.  A string literal lexeme carries its quotes.                 *)
(***************************************************************************)
StrLits == {"\"a\"", "\"b\"", "\"c\"", "\"L1\"", "\"L2\"",
            "\"lease_id\"", "\"delay_seconds\"", "\"key\"", "\"value\""}
NumLits == {"0", "1", "30"}
Puncts == {"[", "]", "{", "}", ",", ":"}
Words == {"null", "not", "json"}
Lexemes == StrLits \cup NumLits \cup Puncts \cup Words

Unquote(l) ==
    CASE l = "\"a\"" -> "a"
      [] l = "\"b\"" -> "b"
      [] l = "\"c\"" -> "c"
      [] l = "\"L1\"" -> "L1"
      [] l = "\"L2\"" -> "L2"
      [] l = "\"lease_id\"" -> "lease_id"
      [] l = "\"delay_seconds\"" -> "delay_seconds"
      [] l = "\"key\"" -> "key"
      [] l = "\"value\"" -> "value"

NumValue(l) ==
    CASE l = "0" -> 0
      [] l = "1" -> 1
      [] l = "30" -> 30

Fail == [ok |-> FALSE]
Got(val, nxt) == [ok |-> TRUE, val |-> val, next |-> nxt]

RECURSIVE ParseValue(_, _)
RECURSIVE ParseElements(_, _, _)
RECURSIVE ParseMembers(_, _, _)

\* elements after "[": value ("," value)* "]"
ParseElements(txt, i, acc) ==
    LET r == ParseValue(txt, i) IN
    IF ~r.ok \/ r.next > Len(txt) THEN Fail
    ELSE IF txt[r.next] = "]" THEN Got(Arr(Append(acc, r.val)), r.next + 1)
    ELSE IF txt[r.next] = "," THEN ParseElements(txt, r.next + 1, Append(acc, r.val))
    ELSE Fail

\* members after "{": string ":" value ("," string ":" value)* "}"
ParseMembers(txt, i, acc) ==
    IF i + 1 > Len(txt) \/ txt[i] \notin StrLits \/ txt[i + 1] # ":" THEN Fail
    ELSE
        LET r == ParseValue(txt, i + 2)
            k == Unquote(txt[i])
        IN  IF ~r.ok \/ r.next > Len(txt) THEN Fail
            ELSE
                LET f == (k :> r.val) @@ acc IN
                IF txt[r.next] = "}" THEN Got(Obj(f), r.next + 1)
                ELSE IF txt[r.next] = "," THEN ParseMembers(txt, r.next + 1, f)
                ELSE Fail

ParseValue(txt, i) ==
    IF i > Len(txt) THEN Fail
    ELSE IF txt[i] \in StrLits THEN Got(Str(Unquote(txt[i])), i + 1)
    ELSE IF txt[i] \in NumLits THEN Got(Num(NumValue(txt[i])), i + 1)
    ELSE IF txt[i] = "null" THEN Got(Null, i + 1)
    ELSE IF txt[i] = "[" THEN
        IF i + 1 <= Len(txt) /\ txt[i + 1] = "]" THEN Got(Arr(<<>>), i + 2)
        ELSE ParseElements(txt, i + 1, <<>>)
    ELSE IF txt[i] = "{" THEN
        IF i + 1 <= Len(txt) /\ txt[i + 1] = "}" THEN Got(Obj(<<>>), i + 2)
        ELSE ParseMembers(txt, i + 1, <<>>)
    ELSE Fail

\* JSON.parse: the decoded value, or a thrown SyntaxError.
SyntaxError == [ok |-> FALSE, error |-> "SyntaxError"]
JSONparse(txt) ==
    LET r == ParseValue(txt, 1) IN
    IF r.ok /\ r.next = Len(txt) + 1 THEN [ok |-> TRUE, val |-> r.val]
    ELSE SyntaxError

(***************************************************************************)
(* What a handler's synchronous prefix ends in: a throw before any await,  *)
(* or the awaited call of an upstream helper.                              *)
(***************************************************************************)
Throw(e) == [threw |-> TRUE, error |-> e, requests |-> <<>>]

\* The helpers of ./cloudflare/{cache,dns,hyperdrive,kv,queues}: each call
\* issues one request to the upstream API, carrying the helper's arguments.
HelperRequests(helper, args) == <<[op |-> helper, args |-> args]>>

\* The helpers hand the upstream answer back verbatim.
HelperResult(helper, answer) == answer

Await(helper, args) ==
    [threw |-> FALSE, helper |-> helper, requests |-> HelperRequests(helper, args)]

(***************************************************************************)
(* createHyperdriveConfig and editHyperdriveConfig.                        *)
(***************************************************************************)
\* BuildOrigin choosing the shape by the stated origin type alone.
BuildOrigin_TypeOnly(originType, database, host, password, port, scheme, user, accessClientId, accessClientSecret) ==
    IF originType = Str("access")
    THEN Obj([access_client_id |-> accessClientId,
              access_client_secret |-> accessClientSecret,
              database |-> database,
              host |-> host,
              password |-> password,
              scheme |-> scheme,
              user |-> user])
    ELSE Obj([database |-> database,
              host |-> host,
              password |-> password,
              port |-> port,
              scheme |-> scheme,
              user |-> user])

BuildOrigin(originType, database, host, password, port, scheme, user, accessClientId, accessClientSecret) ==
    IF originType = Str("access") /\ Truthy(accessClientId) /\ Truthy(accessClientSecret)
    THEN Obj([access_client_id |-> accessClientId,
              access_client_secret |-> accessClientSecret,
              database |-> database,
              host |-> host,
              password |-> password,
              scheme |-> scheme,
              user |-> user])
    ELSE Obj([database |-> database,
              host |-> host,
              password |-> password,
              port |-> port,
              scheme |-> scheme,
              user |-> user])

\* BuildCaching testing the three fields for truthiness instead of !== undefined.
BuildCaching_Truthy(cachingDisabled, cachingMaxAge, cachingStaleWhileRevalidate) ==
    IF \/ Truthy(cachingDisabled)
       \/ Truthy(cachingMaxAge)
       \/ Truthy(cachingStaleWhileRevalidate)
    THEN Obj([disabled |-> cachingDisabled,
              max_age |-> cachingMaxAge,
              stale_while_revalidate |-> cachingStaleWhileRevalidate])
    ELSE Undefined

BuildCaching(cachingDisabled, cachingMaxAge, cachingStaleWhileRevalidate) ==
    IF \/ cachingDisabled # Undefined
       \/ cachingMaxAge # Undefined
       \/ cachingStaleWhileRevalidate # Undefined
    THEN Obj([disabled |-> cachingDisabled,
              max_age |-> cachingMaxAge,
              stale_while_revalidate |-> cachingStaleWhileRevalidate])
    ELSE Undefined

\* createHyperdriveConfig rejecting an "access" origin that lacks credentials.
createHyperdriveConfig_Validating(a) ==
    IF a.originType = Str("access") /\ ~(Truthy(a.accessClientId) /\ Truthy(a.accessClientSecret))
    THEN Throw("ValidationError")
    ELSE Await("createHyperdriveConfig",
               <<a.accountId, a.name,
                 BuildOrigin(a.originType, a.database, a.host, a.password, a.port,
                             a.scheme, a.user, a.accessClientId, a.accessClientSecret),
                 BuildCaching(a.cachingDisabled, a.cachingMaxAge,
                              a.cachingStaleWhileRevalidate)>>)

createHyperdriveConfig(a) ==
    LET origin == BuildOrigin(a.originType, a.database, a.host, a.password, a.port,
                              a.scheme, a.user, a.accessClientId, a.accessClientSecret)
        caching == BuildCaching(a.cachingDisabled, a.cachingMaxAge,
                                a.cachingStaleWhileRevalidate)
    IN  Await("createHyperdriveConfig", <<a.accountId, a.name, origin, caching>>)

\* EditParams testing name for truthiness instead of !== undefined.
EditParams_TruthyName(name, cachingDisabled, cachingMaxAge, cachingStaleWhileRevalidate) ==
    LET empty == <<>>
        named == IF Truthy(name) THEN ("name" :> name) @@ empty ELSE empty
        cached ==
            IF \/ cachingDisabled # Undefined
               \/ cachingMaxAge # Undefined
               \/ cachingStaleWhileRevalidate # Undefined
            THEN ("caching" :> Obj([disabled |-> cachingDisabled,
                                    max_age |-> cachingMaxAge,
                                    stale_while_revalidate |-> cachingStaleWhileRevalidate]))
                 @@ named
            ELSE named
    IN  Obj(cached)

EditParams(name, cachingDisabled, cachingMaxAge, cachingStaleWhileRevalidate) ==
    LET empty == <<>>
        named == IF name # Undefined THEN ("name" :> name) @@ empty ELSE empty
        cached ==
            IF \/ cachingDisabled # Undefined
               \/ cachingMaxAge # Undefined
               \/ cachingStaleWhileRevalidate # Undefined
            THEN ("caching" :> Obj([disabled |-> cachingDisabled,
                                    max_age |-> cachingMaxAge,
                                    stale_while_revalidate |-> cachingStaleWhileRevalidate]))
                 @@ named
            ELSE named
    IN  Obj(cached)

\* editHyperdriveConfig filling one params object kept outside the method: a
\* name that an overlapping call put there stays in it.
editHyperdriveConfig_SharedParams(a) ==
    LET left == {call[j].args.name :
                    j \in {k \in DOMAIN pc : /\ pc[k] = "awaiting"
                                             /\ call[k].tool = "editHyperdriveConfig"}}
                \ {Undefined}
        name == IF a.name = Undefined /\ left # {} THEN CHOOSE n \in left : TRUE ELSE a.name
    IN  Await("editHyperdriveConfig",
              <<a.accountId, a.hyperdriveId,
                EditParams(name, a.cachingDisabled, a.cachingMaxAge,
                           a.cachingStaleWhileRevalidate)>>)

editHyperdriveConfig(a) ==
    Await("editHyperdriveConfig",
          <<a.accountId, a.hyperdriveId,
            EditParams(a.name, a.cachingDisabled, a.cachingMaxAge,
                       a.cachingStaleWhileRevalidate)>>)

(***************************************************************************)
(* The tools that take JSON-encoded collections.                           *)
(***************************************************************************)
\* acknowledgeQueueMessages treating an undecodable retries as absent.
acknowledgeQueueMessages_LenientRetries(a) ==
    LET parsedAcks == JSONparse(a.acks.v) IN
    IF ~parsedAcks.ok THEN Throw(parsedAcks.error)
    ELSE
        LET parsedRetries ==
                IF Truthy(a.retries) /\ JSONparse(a.retries.v).ok
                THEN JSONparse(a.retries.v)
                ELSE [ok |-> TRUE, val |-> Undefined]
        IN  Await("acknowledgeMessages",
                  <<a.accountId, a.queueId, parsedAcks.val, parsedRetries.val>>)

\* acknowledgeQueueMessages sending the acknowledgements before it decodes retries.
acknowledgeQueueMessages_DispatchFirst(a) ==
    LET parsedAcks == JSONparse(a.acks.v) IN
    IF ~parsedAcks.ok THEN Throw(parsedAcks.error)
    ELSE
        LET parsedRetries ==
                IF Truthy(a.retries) THEN JSONparse(a.retries.v)
                ELSE [ok |-> TRUE, val |-> Undefined]
        IN  IF ~parsedRetries.ok
            THEN [threw |-> TRUE, error |-> parsedRetries.error,
                  requests |-> HelperRequests("acknowledgeMessages",
                                              <<a.accountId, a.queueId, parsedAcks.val, Undefined>>)]
            ELSE Await("acknowledgeMessages",
                       <<a.accountId, a.queueId, parsedAcks.val, parsedRetries.val>>)

\* acknowledgeQueueMessages defaulting an absent retries to an empty list.
acknowledgeQueueMessages_DefaultRetries(a) ==
    LET parsedAcks == JSONparse(a.acks.v) IN
    IF ~parsedAcks.ok THEN Throw(parsedAcks.error)
    ELSE
        LET parsedRetries ==
                IF Truthy(a.retries) THEN JSONparse(a.retries.v)
                ELSE [ok |-> TRUE, val |-> Arr(<<>>)]
        IN  IF ~parsedRetries.ok THEN Throw(parsedRetries.error)
            ELSE Await("acknowledgeMessages",
                       <<a.accountId, a.queueId, parsedAcks.val, parsedRetries.val>>)

\* acknowledgeQueueMessages decoding retries whenever it is not undefined.
acknowledgeQueueMessages_ParseDefined(a) ==
    LET parsedAcks == JSONparse(a.acks.v) IN
    IF ~parsedAcks.ok THEN Throw(parsedAcks.error)
    ELSE
        LET parsedRetries ==
                IF a.retries # Undefined THEN JSONparse(a.retries.v)
                ELSE [ok |-> TRUE, val |-> Undefined]
        IN  IF ~parsedRetries.ok THEN Throw(parsedRetries.error)
            ELSE Await("acknowledgeMessages",
                       <<a.accountId, a.queueId, parsedAcks.val, parsedRetries.val>>)

acknowledgeQueueMessages(a) ==
    LET parsedAcks == JSONparse(a.acks.v) IN
    IF ~parsedAcks.ok THEN Throw(parsedAcks.error)
    ELSE
        LET parsedRetries ==
                IF Truthy(a.retries) THEN JSONparse(a.retries.v)
                ELSE [ok |-> TRUE, val |-> Undefined]
        IN  IF ~parsedRetries.ok THEN Throw(parsedRetries.error)
            ELSE Await("acknowledgeMessages",
                       <<a.accountId, a.queueId, parsedAcks.val, parsedRetries.val>>)

RECURSIVE Dedup(_)
Dedup(q) ==
    IF Len(q) = 0 THEN <<>>
    ELSE LET front == Dedup(SubSeq(q, 1, Len(q) - 1)) IN
         IF \E k \in 1..Len(front) : front[k] = q[Len(q)] THEN front
         ELSE Append(front, q[Len(q)])

\* bulkDeleteKVKeys forwarding each distinct key once.
bulkDeleteKVKeys_Dedup(a) ==
    LET parsedKeys == JSONparse(a.keys.v) IN
    IF ~parsedKeys.ok THEN Throw(parsedKeys.error)
    ELSE Await("bulkDeleteKeys",
               <<a.accountId, a.namespaceId,
                 IF parsedKeys.val.t = "array" THEN Arr(Dedup(parsedKeys.val.v))
                 ELSE parsedKeys.val>>)

bulkDeleteKVKeys(a) ==
    LET parsedKeys == JSONparse(a.keys.v) IN
    IF ~parsedKeys.ok THEN Throw(parsedKeys.error)
    ELSE Await("bulkDeleteKeys", <<a.accountId, a.namespaceId, parsedKeys.val>>)

bulkUpdateKVKeys(a) ==
    LET parsedKeyValues == JSONparse(a.keyValues.v) IN
    IF ~parsedKeyValues.ok THEN Throw(parsedKeyValues.error)
    ELSE Await("bulkUpdateKeys", <<a.accountId, a.namespaceId, parsedKeyValues.val>>)

(***************************************************************************)
(* The tools that forward their arguments unchanged to one helper: the     *)
(* helper each calls, and how many required and optional parameters.       *)
(***************************************************************************)
Forwarders ==
    [purgeCache |-> [helper |-> "purgeEverything", required |-> 1, optional |-> 0],
     deleteDNSRecord |-> [helper |-> "deleteDNSRecord", required |-> 2, optional |-> 0],
     listDNSRecords |-> [helper |-> "listDNSRecords", required |-> 1, optional |-> 0],
     deleteHyperdriveConfig |-> [helper |-> "deleteHyperdriveConfig", required |-> 2, optional |-> 0],
     getHyperdriveConfig |-> [helper |-> "getHyperdriveConfig", required |-> 2, optional |-> 0],
     listHyperdriveConfigs |-> [helper |-> "listHyperdriveConfigs", required |-> 1, optional |-> 0],
     createKVNamespace |-> [helper |-> "createNamespace", required |-> 2, optional |-> 0],
     updateKVNamespace |-> [helper |-> "updateNamespace", required |-> 3, optional |-> 0],
     listKVNamespaces |-> [helper |-> "listNamespaces", required |-> 1, optional |-> 2],
     deleteKVNamespace |-> [helper |-> "deleteNamespace", required |-> 2, optional |-> 0],
     getKVNamespace |-> [helper |-> "getNamespace", required |-> 2, optional |-> 0],
     listKVKeys |-> [helper |-> "listKeys", required |-> 2, optional |-> 3],
     getKVMetadata |-> [helper |-> "getMetadata", required |-> 3, optional |-> 0],
     updateKVValue |-> [helper |-> "updateValue", required |-> 4, optional |-> 3],
     deleteKVValue |-> [helper |-> "deleteValue", required |-> 3, optional |-> 0],
     getKVValue |-> [helper |-> "getValue", required |-> 3, optional |-> 0],
     createQueue |-> [helper |-> "createQueue", required |-> 2, optional |-> 0],
     getQueue |-> [helper |-> "getQueue", required |-> 2, optional |-> 0],
     listQueues |-> [helper |-> "listQueues", required |-> 1, optional |-> 0],
     pullQueueMessages |-> [helper |-> "pullMessages", required |-> 2, optional |-> 2]]

Forward(tool, args) == Await(Forwarders[tool].helper, args)

\* `type as DNSRecordType` is a compile-time assertion: nothing runs.
createDNSRecord(a) ==
    Await("createDNSRecord", <<a.zoneId, a.name, a.content, a.type, a.comment, a.proxied>>)

editDNSRecord(a) ==
    Await("editDNSRecord", <<a.zoneId, a.recordId, a.content, a.type, a.comment, a.proxied>>)

(***************************************************************************)
(* listZones (cloudflare/zones.ts): one client.zones.list(), then the text.*)
(***************************************************************************)
ZonesListRequests == <<[op |-> "zones.list", args |-> <<>>]>>

listZones == [threw |-> FALSE, helper |-> "zones.list", requests |-> ZonesListRequests]

ZoneLine(zone) == "- " \o zone.v.name.v \o " (ID: " \o zone.v.id.v \o ")"

\* join ending every line, the last included, with the separator.
JoinTrailing(lines, sep) ==
    LET F[k \in 0..Len(lines)] == IF k = 0 THEN "" ELSE F[k - 1] \o lines[k] \o sep
    IN  F[Len(lines)]

RECURSIVE Join(_, _)
\* Array.prototype.join
Join(lines, sep) ==
    IF Len(lines) = 0 THEN ""
    ELSE IF Len(lines) = 1 THEN lines[1]
    ELSE lines[1] \o sep \o Join(Tail(lines), sep)

ZonesText(page) ==
    LET zones == IF Truthy(page.v.result) THEN page.v.result.v ELSE <<>>
        zonesList == Join([k \in 1..Len(zones) |-> ZoneLine(zones[k])], "\n")
    IN  IF Len(zones) > 0
        THEN "Found " \o ToString(Len(zones)) \o " zone(s):\n" \o zonesList
        ELSE "No zones found."

ListZonesResult(page) ==
    Obj([content |-> Arr(<<Obj([type |-> Str("text"), text |-> Str(ZonesText(page))])>>)])

\* What the method does when the awaited call settles: `return await f(...)`
\* with no try/catch around it.
AwaitResolved(tool, answer) ==
    [pc |-> "returned",
     outcome |-> [kind |-> "value",
                  value |-> IF tool = "listZones" THEN ListZonesResult(answer)
                            ELSE HelperResult(tool, answer)],
     requests |-> <<>>]

\* A catch that rethrows a new error around the upstream one.
AwaitRejected_Wrapped(tool, e) ==
    [pc |-> "threw",
     outcome |-> [kind |-> "error", error |-> "Error: " \o tool \o " failed: " \o e],
     requests |-> <<>>]

AwaitRejected(tool, e) ==
    [pc |-> "threw", outcome |-> [kind |-> "error", error |-> e], requests |-> <<>>]

(***************************************************************************)
(* Arguments the callers pass.                                             *)
(***************************************************************************)
SeqsUpTo(S, n) == UNION {[1..k -> S] : k \in 0..n}

RECURSIVE JoinLex(_)
JoinLex(elems) ==
    IF Len(elems) = 0 THEN <<>>
    ELSE IF Len(elems) = 1 THEN elems[1]
    ELSE elems[1] \o <<",">> \o JoinLex(Tail(elems))

\* The text of a JSON array whose elements have the given texts.
ArrayText(elems) == <<"[">> \o JoinLex(elems) \o <<"]">>

KeyLits == {"\"a\"", "\"b\"", "\"c\""}
AckObjects == {<<"{", "\"lease_id\"", ":", "\"L1\"", "}">>,
               <<"{", "\"lease_id\"", ":", "\"L2\"", "}">>}
RetryObjects == {<<"{", "\"lease_id\"", ":", "\"L1\"", "}">>,
                 <<"{", "\"lease_id\"", ":", "\"L2\"", ",", "\"delay_seconds\"", ":", "30", "}">>}
EntryObjects == {<<"{", "\"key\"", ":", "\"a\"", ",", "\"value\"", ":", "\"b\"", "}">>,
                 <<"{", "\"key\"", ":", "\"b\"", ",", "\"value\"", ":", "\"c\"", "}">>}

WellFormedKeys == {ArrayText([k \in 1..Len(q) |-> <<q[k]>>]) : q \in SeqsUpTo(KeyLits, MaxKeys)}
WellFormedAcks == {ArrayText(q) : q \in SeqsUpTo(AckObjects, MaxEntries)}
WellFormedRetries == {ArrayText(q) : q \in SeqsUpTo(RetryObjects, MaxEntries)}
WellFormedEntries == {ArrayText(q) : q \in SeqsUpTo(EntryObjects, MaxEntries)}

\* Texts that are not JSON.
Malformed ==
    {<<>>,
     <<"not", "json">>,
     <<"[", "\"a\"", ",", "]">>,
     <<"[", "\"a\"">>,
     <<"[", "]", "]">>,
     <<"{", "\"key\"", ":", "}">>,
     <<"[", "{", "\"lease_id\"", ":", "\"L1\"", "}", ",">>}

\* Texts that are JSON but not of the documented format.
MisshapenKeys ==
    {<<"{", "\"a\"", ":", "1", "}">>,
     <<"[", "1", "]">>,
     <<"[", "\"a\"", ",", "1", "]">>,
     <<"\"a\"">>,
     <<"null">>}
MisshapenAcks ==
    {<<"[", "{", "}", "]">>,
     <<"[", "{", "\"delay_seconds\"", ":", "30", "}", "]">>,
     <<"[", "{", "\"lease_id\"", ":", "1", "}", "]">>,
     <<"[", "\"L1\"", "]">>,
     <<"{", "\"lease_id\"", ":", "\"L1\"", "}">>}
MisshapenEntries ==
    {<<"[", "{", "\"key\"", ":", "\"a\"", "}", "]">>,
     <<"[", "{", "\"value\"", ":", "\"b\"", "}", "]">>,
     <<"[", "\"a\"", "]">>,
     <<"{", "}">>}

ShortTexts == SeqsUpTo(Lexemes, MaxTokens)

Optional(S) == {Undefined} \cup S

CreateHyperdriveArgs ==
    [accountId : {Str("acct")},
     name : {Str("hd")},
     originType : {Str("access"), Str("standard"), Str("Access"), Str("")},
     database : {Str("db")},
     host : {Str("db.example.com")},
     password : {Str("pw")},
     port : {Num(0), Num(5432)},
     scheme : {Str("postgres")},
     user : {Str("u")},
     accessClientId : Optional({Str(""), Str("cid")}),
     accessClientSecret : Optional({Str(""), Str("csecret")}),
     cachingDisabled : Optional({Bool(TRUE), Bool(FALSE)}),
     cachingMaxAge : Optional({Num(0), Num(60)}),
     cachingStaleWhileRevalidate : Optional({Num(0), Num(15)})]

EditHyperdriveArgs ==
    [accountId : {Str("acct")},
     hyperdriveId : {Str("hd1")},
     name : Optional({Str(""), Str("hd")}),
     cachingDisabled : Optional({Bool(TRUE), Bool(FALSE)}),
     cachingMaxAge : Optional({Num(0), Num(60)}),
     cachingStaleWhileRevalidate : Optional({Num(0), Num(15)})]

AcknowledgeArgs ==
    [accountId : {Str("acct")},
     queueId : {Str("q1")},
     acks : {Str(x) : x \in WellFormedAcks \cup MisshapenAcks \cup Malformed},
     retries : Optional({Str(x) : x \in WellFormedRetries \cup MisshapenAcks \cup Malformed})]

BulkDeleteArgs ==
    [accountId : {Str("acct")},
     namespaceId : {Str("ns1")},
     keys : {Str(x) : x \in WellFormedKeys \cup MisshapenKeys \cup Malformed \cup ShortTexts}]

BulkUpdateArgs ==
    [accountId : {Str("acct")},
     namespaceId : {Str("ns1")},
     keyValues : {Str(x) : x \in WellFormedEntries \cup MisshapenEntries \cup Malformed \cup ShortTexts}]

DNSArgs(ident) ==
    {[f \in {"zoneId", ident, "content", "type", "comment", "proxied"} |->
        CASE f = "zoneId" -> Str("z1")
          [] f = ident -> Str("www")
          [] f = "content" -> Str("192.0.2.1")
          [] f = "type" -> ty
          [] f = "comment" -> cm
          [] f = "proxied" -> px] :
     ty \in {Str("CNAME"), Str("A"), Str("TXT"), Str("MX"), Str("AAAA"), Str("")},
     cm \in Optional({Str("note")}),
     px \in Optional({Bool(TRUE), Bool(FALSE)})}

ForwarderArgs(tool) ==
    LET n == Forwarders[tool].required
        m == Forwarders[tool].optional
    IN  {[k \in 1..(n + m) |-> IF k <= n THEN Str("id") ELSE opt[k - n]] :
         opt \in [1..m -> Optional({Str("x")})]}

Zones == {Obj([name |-> Str("a.com"), id |-> Str("1")]),
          Obj([name |-> Str("b.com"), id |-> Str("2")])}

\* How the upstream may answer.
Answers(tool) ==
    IF tool = "listZones"
    THEN {Obj([result |-> Arr(z)]) : z \in SeqsUpTo(Zones, MaxZones)}
         \cup {Obj([result |-> Null])}
    ELSE {Obj([success |-> Bool(TRUE)]), Null}

UpstreamErrors == {"AuthenticationError", "NotFoundError", "RateLimitError"}

(***************************************************************************)
(* The state machine.                                                      *)
(***************************************************************************)
Invocations == {"i1"}

NoCall == [tool |-> "none"]
Pending == [kind |-> "none"]

\* A method is called and runs to its first await, or to a throw before it.
Start(i, tool, args, run) ==
    /\ call' = [call EXCEPT ![i] = [tool |-> tool, args |-> args]]
    /\ requests' = [requests EXCEPT ![i] = run.requests]
    /\ pc' = [pc EXCEPT ![i] = IF run.threw THEN "threw" ELSE "awaiting"]
    /\ outcome' = [outcome EXCEPT ![i] =
                      IF run.threw THEN [kind |-> "error", error |-> run.error]
                      ELSE Pending]
    /\ UNCHANGED response

Settle(i, settled, after) ==
    /\ response' = [response EXCEPT ![i] = settled]
    /\ pc' = [pc EXCEPT ![i] = after.pc]
    /\ outcome' = [outcome EXCEPT ![i] = after.outcome]
    /\ requests' = [requests EXCEPT ![i] = requests[i] \o after.requests]
    /\ UNCHANGED call

InvokeListZones(i) ==
    /\ pc[i] = "idle"
    /\ Start(i, "listZones", <<>>, listZones)

InvokeForwarder(i) ==
    /\ pc[i] = "idle"
    /\ \E tool \in DOMAIN Forwarders : \E args \in ForwarderArgs(tool) :
           Start(i, tool, args, Forward(tool, args))

InvokeCreateDNSRecord(i) ==
    /\ pc[i] = "idle"
    /\ \E a \in DNSArgs("name") : Start(i, "createDNSRecord", a, createDNSRecord(a))

InvokeEditDNSRecord(i) ==
    /\ pc[i] = "idle"
    /\ \E a \in DNSArgs("recordId") : Start(i, "editDNSRecord", a, editDNSRecord(a))

InvokeCreateHyperdriveConfig(i) ==
    /\ pc[i] = "idle"
    /\ \E a \in CreateHyperdriveArgs :
           Start(i, "createHyperdriveConfig", a, createHyperdriveConfig(a))

InvokeEditHyperdriveConfig(i) ==
    /\ pc[i] = "idle"
    /\ \E a \in EditHyperdriveArgs :
           Start(i, "editHyperdriveConfig", a, editHyperdriveConfig(a))

InvokeAcknowledgeQueueMessages(i) ==
    /\ pc[i] = "idle"
    /\ \E a \in AcknowledgeArgs :
           Start(i, "acknowledgeQueueMessages", a, acknowledgeQueueMessages(a))

InvokeBulkDeleteKVKeys(i) ==
    /\ pc[i] = "idle"
    /\ \E a \in BulkDeleteArgs : Start(i, "bulkDeleteKVKeys", a, bulkDeleteKVKeys(a))

InvokeBulkUpdateKVKeys(i) ==
    /\ pc[i] = "idle"
    /\ \E a \in BulkUpdateArgs : Start(i, "bulkUpdateKVKeys", a, bulkUpdateKVKeys(a))

UpstreamResolves(i) ==
    /\ pc[i] = "awaiting"
    /\ \E answer \in Answers(call[i].tool) :
           Settle(i, [kind |-> "value", value |-> answer],
                  AwaitResolved(call[i].tool, answer))

UpstreamRejects(i) ==
    /\ pc[i] = "awaiting"
    /\ \E e \in UpstreamErrors :
           Settle(i, [kind |-> "error", error |-> e], AwaitRejected(call[i].tool, e))

\* The caller has its answer; the invocation's values are gone.
Finish(i) ==
    /\ pc[i] \in {"returned", "threw"}
    /\ pc' = [pc EXCEPT ![i] = "idle"]
    /\ call' = [call EXCEPT ![i] = NoCall]
    /\ requests' = [requests EXCEPT ![i] = <<>>]
    /\ response' = [response EXCEPT ![i] = Pending]
    /\ outcome' = [outcome EXCEPT ![i] = Pending]

Init ==
    /\ pc = [i \in Invocations |-> "idle"]
    /\ call = [i \in Invocations |-> NoCall]
    /\ requests = [i \in Invocations |-> <<>>]
    /\ response = [i \in Invocations |-> Pending]
    /\ outcome = [i \in Invocations |-> Pending]

Next ==
    \E i \in Invocations :
        \/ InvokeListZones(i)
        \/ InvokeForwarder(i)
        \/ InvokeCreateDNSRecord(i)
        \/ InvokeEditDNSRecord(i)
        \/ InvokeCreateHyperdriveConfig(i)
        \/ InvokeEditHyperdriveConfig(i)
        \/ InvokeAcknowledgeQueueMessages(i)
        \/ InvokeBulkDeleteKVKeys(i)
        \/ InvokeBulkUpdateKVKeys(i)
        \/ UpstreamResolves(i)
        \/ UpstreamRejects(i)
        \/ Finish(i)

Spec == Init /\ [][Next]_vars

(***************************************************************************)
(* Properties.                                                             *)
(***************************************************************************)
Active(i, tool) == pc[i] # "idle" /\ call[i].tool = tool

\* The invocation threw before its await: no upstream call ever settled.
LocalThrow(i) == pc[i] = "threw" /\ response[i] = Pending

NonEmpty(x) == x.t = "string" /\ x.v # ""

AccessFields == {"access_client_id", "access_client_secret"}
CommonOriginFields == {"database", "host", "password", "scheme", "user"}
CachingFields == {"disabled", "max_age", "stale_while_revalidate"}

WithCredentials(a) ==
    a.originType.v = "access" /\ NonEmpty(a.accessClientId) /\ NonEmpty(a.accessClientSecret)

\* C1: every createHyperdriveConfig call dispatches an origin that carries the
\* two access fields and no port when originType is "access" and both
\* credentials are non-empty, and otherwise carries port and neither access field.
C1_OriginShape ==
    \A i \in Invocations :
        Active(i, "createHyperdriveConfig") =>
            /\ Len(requests[i]) = 1
            /\ LET a == call[i].args
                   origin == requests[i][1].args[3]
               IN  /\ origin.t = "object"
                   /\ IF WithCredentials(a)
                      THEN /\ AccessFields \subseteq DOMAIN origin.v
                           /\ origin.v.access_client_id = a.accessClientId
                           /\ origin.v.access_client_secret = a.accessClientSecret
                           /\ "port" \notin DOMAIN origin.v
                      ELSE /\ "port" \in DOMAIN origin.v
                           /\ origin.v.port = a.port
                           /\ AccessFields \cap DOMAIN origin.v = {}

C1_Witness ==
    \E i \in Invocations :
        /\ pc[i] = "awaiting"
        /\ call[i].tool = "createHyperdriveConfig"
        /\ WithCredentials(call[i].args)
        /\ DOMAIN requests[i][1].args[3].v = AccessFields \cup CommonOriginFields

AllCachingUndefined(a) ==
    /\ a.cachingDisabled.t = "undefined"
    /\ a.cachingMaxAge.t = "undefined"
    /\ a.cachingStaleWhileRevalidate.t = "undefined"

CarriesCallersCaching(caching, a) ==
    /\ caching.t = "object"
    /\ DOMAIN caching.v = CachingFields
    /\ caching.v.disabled = a.cachingDisabled
    /\ caching.v.max_age = a.cachingMaxAge
    /\ caching.v.stale_while_revalidate = a.cachingStaleWhileRevalidate

\* C2: a createHyperdriveConfig or editHyperdriveConfig call whose three
\* caching arguments are all undefined dispatches no caching object; if one is
\* defined (false and 0 included) the caching object carries exactly the
\* caller's three values, the unsupplied ones undefined.
C2_CachingPolicy ==
    \A i \in Invocations :
        /\ Active(i, "createHyperdriveConfig") =>
              /\ Len(requests[i]) = 1
              /\ LET a == call[i].args
                     caching == requests[i][1].args[4]
                 IN  IF AllCachingUndefined(a) THEN caching = Undefined
                     ELSE CarriesCallersCaching(caching, a)
        /\ Active(i, "editHyperdriveConfig") =>
              /\ Len(requests[i]) = 1
              /\ LET a == call[i].args
                     params == requests[i][1].args[3].v
                 IN  IF AllCachingUndefined(a) THEN "caching" \notin DOMAIN params
                     ELSE /\ "caching" \in DOMAIN params
                          /\ CarriesCallersCaching(params.caching, a)

C2_Witness ==
    \E i \in Invocations :
        /\ pc[i] = "awaiting"
        /\ call[i].tool = "editHyperdriveConfig"
        /\ call[i].args.cachingDisabled = Bool(FALSE)
        /\ call[i].args.cachingMaxAge = Num(0)
        /\ call[i].args.cachingStaleWhileRevalidate = Undefined
        /\ requests[i][1].args[3].v.caching =
               Obj([disabled |-> Bool(FALSE), max_age |-> Num(0),
                    stale_while_revalidate |-> Undefined])

\* C10: a createHyperdriveConfig call with originType "access" and a missing or
\* empty accessClientId or accessClientSecret raises no local error and issues
\* its one upstream request with the Standard-shaped origin.
C10_AccessFallback ==
    \A i \in Invocations :
        (/\ Active(i, "createHyperdriveConfig")
         /\ call[i].args.originType.v = "access"
         /\ ~(NonEmpty(call[i].args.accessClientId) /\ NonEmpty(call[i].args.accessClientSecret)))
        => /\ ~LocalThrow(i)
           /\ Len(requests[i]) = 1
           /\ requests[i][1].op = "createHyperdriveConfig"
           /\ DOMAIN requests[i][1].args[3].v = CommonOriginFields \cup {"port"}

C10_Witness ==
    \E i \in Invocations :
        /\ pc[i] = "returned"
        /\ call[i].tool = "createHyperdriveConfig"
        /\ call[i].args.originType.v = "access"
        /\ call[i].args.accessClientId = Str("cid")
        /\ call[i].args.accessClientSecret = Str("")
        /\ Len(requests[i]) = 1
        /\ "port" \in DOMAIN requests[i][1].args[3].v
JsonTools == {"bulkDeleteKVKeys", "bulkUpdateKVKeys", "acknowledgeQueueMessages"}

\* The JSON-string parameters the caller supplied.
SuppliedJson(c) ==
    CASE c.tool = "bulkDeleteKVKeys" -> {c.args.keys}
      [] c.tool = "bulkUpdateKVKeys" -> {c.args.keyValues}
      [] c.tool = "acknowledgeQueueMessages" ->
            {c.args.acks} \cup (IF c.args.retries = Undefined THEN {} ELSE {c.args.retries})
      [] OTHER -> {}

NotJson(x) == ~JSONparse(x.v).ok

EndsInLocalError(i) ==
    /\ LocalThrow(i)
    /\ outcome[i] = [kind |-> "error", error |-> "SyntaxError"]
    /\ requests[i] = <<>>

\* C3 as stated: if any supplied JSON-string parameter (keys, keyValues, acks,
\* or a supplied retries) is not JSON, the invocation ends in an error and no
\* upstream request is issued.
C3_AnyUndecodableAborts ==
    \A i \in Invocations :
        (/\ pc[i] # "idle"
         /\ call[i].tool \in JsonTools
         /\ \E x \in SuppliedJson(call[i]) : NotJson(x))
        => EndsInLocalError(i)

\* The JSON-string parameters of the amended claim: retries counts only when
\* it is supplied and is not the empty string.
SuppliedNonEmptyJson(c) ==
    CASE c.tool = "bulkDeleteKVKeys" -> {c.args.keys}
      [] c.tool = "bulkUpdateKVKeys" -> {c.args.keyValues}
      [] c.tool = "acknowledgeQueueMessages" ->
            {c.args.acks} \cup (IF c.args.retries.t = "string" /\ c.args.retries.v # <<>>
                                THEN {c.args.retries} ELSE {})
      [] OTHER -> {}

\* C3 amended: if keys, keyValues, acks or a supplied non-empty retries is not
\* JSON, the invocation ends in an error and no upstream request is issued.
C3_UndecodableAborts ==
    \A i \in Invocations :
        (/\ pc[i] # "idle"
         /\ call[i].tool \in JsonTools
         /\ \E x \in SuppliedNonEmptyJson(call[i]) : NotJson(x))
        => EndsInLocalError(i)

C3_Witness ==
    \E i \in Invocations :
        /\ call[i].tool = "acknowledgeQueueMessages"
        /\ call[i].args.acks.v \in WellFormedAcks
        /\ call[i].args.retries = Str(<<"[", "{", "\"lease_id\"", ":", "\"L1\"", "}", ",">>)
        /\ EndsInLocalError(i)

IsStringArray(v) ==
    v.t = "array" /\ \A k \in 1..Len(v.v) : v.v[k].t = "string"

IsArrayOfObjectsWith(v, fields) ==
    v.t = "array" /\ \A k \in 1..Len(v.v) : v.v[k].t = "object" /\ fields \subseteq DOMAIN v.v[k].v

\* Every JSON-string parameter decodes, and some decoded value is not of the
\* documented element structure.
Misshapen(c) ==
    CASE c.tool = "bulkDeleteKVKeys" ->
            /\ ~NotJson(c.args.keys)
            /\ ~IsStringArray(JSONparse(c.args.keys.v).val)
      [] c.tool = "bulkUpdateKVKeys" ->
            /\ ~NotJson(c.args.keyValues)
            /\ ~IsArrayOfObjectsWith(JSONparse(c.args.keyValues.v).val, {"key", "value"})
      [] c.tool = "acknowledgeQueueMessages" ->
            /\ ~NotJson(c.args.acks)
            /\ Truthy(c.args.retries) => ~NotJson(c.args.retries)
            /\ \/ ~IsArrayOfObjectsWith(JSONparse(c.args.acks.v).val, {"lease_id"})
               \/ /\ Truthy(c.args.retries)
                  /\ ~IsArrayOfObjectsWith(JSONparse(c.args.retries.v).val, {"lease_id"})
      [] OTHER -> FALSE

\* C4: when every JSON-string parameter decodes but a decoded value lacks the
\* expected element structure, the call fails with an error for the caller and
\* no upstream request is issued.
C4_MisshapenRejected ==
    \A i \in Invocations :
        (pc[i] # "idle" /\ Misshapen(call[i])) =>
            /\ LocalThrow(i)
            /\ outcome[i].kind = "error"
            /\ requests[i] = <<>>

C6_UpstreamErrorPropagates ==
    \A i \in Invocations :
        response[i].kind = "error" =>
            /\ pc[i] = "threw"
            /\ outcome[i] = [kind |-> "error", error |-> response[i].error]
            /\ Len(requests[i]) = 1

C6_Witness ==
    \E i \in Invocations :
        /\ call[i].tool = "listZones"
        /\ response[i] = [kind |-> "error", error |-> "AuthenticationError"]
        /\ outcome[i] = [kind |-> "error", error |-> "AuthenticationError"]

ExpectedLine(zone) == "- " \o zone.v.name.v \o " (ID: " \o zone.v.id.v \o ")"

\* n lines in the order of z, a newline between consecutive lines only.
ExpectedLines(z) ==
    LET F[k \in 1..Len(z)] ==
            IF k = 1 THEN ExpectedLine(z[1]) ELSE F[k - 1] \o "\n" \o ExpectedLine(z[k])
    IN  F[Len(z)]

UpstreamZones(i) ==
    LET result == response[i].value.v.result IN
    IF result.t = "array" THEN result.v ELSE <<>>

TextItem(text) == Obj([content |-> Arr(<<Obj([type |-> Str("text"), text |-> Str(text)])>>)])

\* C7: listZones returns one text item: "No zones found." for an empty
\* collection, and for n >= 1 zones "Found n zone(s):" followed by the n
\* "- name (ID: id)" lines in upstream order, newline-joined, no trailing newline.
C7_ZonesText ==
    \A i \in Invocations :
        (pc[i] = "returned" /\ call[i].tool = "listZones") =>
            LET z == UpstreamZones(i) IN
            /\ outcome[i].kind = "value"
            /\ Len(z) = 0 => outcome[i].value = TextItem("No zones found.")
            /\ Len(z) >= 1 =>
                  outcome[i].value =
                      TextItem("Found " \o ToString(Len(z)) \o " zone(s):" \o "\n" \o ExpectedLines(z))
            /\ z = <<Obj([name |-> Str("a.com"), id |-> Str("1")]),
                     Obj([name |-> Str("b.com"), id |-> Str("2")])>> =>
                  outcome[i].value = TextItem("Found 2 zone(s):\n- a.com (ID: 1)\n- b.com (ID: 2)")

C7_Witness ==
    \E i \in Invocations :
        /\ pc[i] = "returned"
        /\ call[i].tool = "listZones"
        /\ Len(UpstreamZones(i)) = 2
        /\ UpstreamZones(i)[1] # UpstreamZones(i)[2]
        /\ outcome[i].value = TextItem("Found 2 zone(s):\n- b.com (ID: 2)\n- a.com (ID: 1)")

\* C8: bulkDeleteKVKeys with the JSON text of an array of strings dispatches
\* exactly that sequence of keys: same elements, order and length.
C8_KeysForwarded ==
    \A i \in Invocations :
        Active(i, "bulkDeleteKVKeys") =>
            \A q \in SeqsUpTo(KeyLits, MaxKeys) :
                call[i].args.keys.v = ArrayText([k \in 1..Len(q) |-> <<q[k]>>]) =>
                    /\ Len(requests[i]) = 1
                    /\ requests[i][1].op = "bulkDeleteKeys"
                    /\ requests[i][1].args[3] = Arr([k \in 1..Len(q) |-> Str(Unquote(q[k]))])

C8_Witness ==
    \E i \in Invocations :
        /\ pc[i] = "awaiting"
        /\ call[i].tool = "bulkDeleteKVKeys"
        /\ call[i].args.keys.v = <<"[", "\"b\"", ",", "\"a\"", ",", "\"b\"", "]">>
        /\ requests[i][1].args[3] = Arr(<<Str("b"), Str("a"), Str("b")>>)

\* C9: acknowledgeQueueMessages with a well-formed acks array and no retries
\* hands upstream one acknowledgement per element of acks, in order, and an
\* absent retry list.
C9_AcksWithoutRetries ==
    \A i \in Invocations :
        (Active(i, "acknowledgeQueueMessages") /\ call[i].args.retries = Undefined) =>
            \A q \in SeqsUpTo(AckObjects, MaxEntries) :
                call[i].args.acks.v = ArrayText(q) =>
                    /\ Len(requests[i]) = 1
                    /\ requests[i][1].op = "acknowledgeMessages"
                    /\ requests[i][1].args[3] =
                           Arr([k \in 1..Len(q) |-> Obj([lease_id |-> Str(Unquote(q[k][4]))])])
                    /\ requests[i][1].args[4] = Undefined

C9_Witness ==
    \E i \in Invocations :
        /\ pc[i] = "awaiting"
        /\ call[i].tool = "acknowledgeQueueMessages"
        /\ call[i].args.acks.v = <<"[", "{", "\"lease_id\"", ":", "\"L1\"", "}", "]">>
        /\ call[i].args.retries = Undefined
        /\ requests[i][1].args[3] = Arr(<<Obj([lease_id |-> Str("L1")])>>)
        /\ requests[i][1].args[4] = Undefined
DNSRecordTypes == {"CNAME", "A", "TXT", "MX"}

\* C12: every DNS record request that createDNSRecord or editDNSRecord
\* dispatches upstream has a record type in {CNAME, A, TXT, MX}; a type outside
\* the enumeration never reaches the upstream API.
C12_TypeInEnumeration ==
    \A i \in DOMAIN requests :
        \A k \in 1..Len(requests[i]) :
            requests[i][k].op \in {"createDNSRecord", "editDNSRecord"} =>
                requests[i][k].args[4].v \in DNSRecordTypes

\* C13: in acknowledgeQueueMessages an empty-string retries is treated like an
\* absent one: it raises no decode error and the upstream call is issued with
\* an absent retry list; a non-empty retries is decoded, and aborts the call
\* when it is not JSON.
C13_EmptyRetriesIsAbsent ==
    \A i \in DOMAIN pc :
        Active(i, "acknowledgeQueueMessages") =>
            LET a == call[i].args
                issued ==
                    /\ ~LocalThrow(i)
                    /\ Len(requests[i]) = 1
                    /\ requests[i][1].op = "acknowledgeMessages"
                    /\ requests[i][1].args[3] = JSONparse(a.acks.v).val
            IN  /\ (a.retries \in {Undefined, Str(<<>>)} /\ ~NotJson(a.acks)) =>
                       issued /\ requests[i][1].args[4] = Undefined
                /\ (a.retries \in {Undefined, Str(<<>>)} /\ NotJson(a.acks)) =>
                       EndsInLocalError(i)
                /\ (a.retries \notin {Undefined, Str(<<>>)} /\ ~NotJson(a.acks)) =>
                       IF NotJson(a.retries) THEN EndsInLocalError(i)
                       ELSE issued /\ requests[i][1].args[4] = JSONparse(a.retries.v).val

C13_Witness ==
    \E i \in DOMAIN pc :
        /\ pc[i] = "returned"
        /\ call[i].tool = "acknowledgeQueueMessages"
        /\ call[i].args.acks.v = <<"[", "{", "\"lease_id\"", ":", "\"L1\"", "}", "]">>
        /\ call[i].args.retries = Str(<<>>)
        /\ Len(requests[i]) = 1
        /\ requests[i][1].args[4] = Undefined

\* C14: the params editHyperdriveConfig dispatches hold a name field exactly
\* when the name argument is not undefined (an empty string is kept as given),
\* whatever the caching arguments are; with name and the three caching
\* arguments all undefined the request is still issued, with empty params.
C14_EditName ==
    \A i \in DOMAIN pc :
        Active(i, "editHyperdriveConfig") =>
            /\ ~LocalThrow(i)
            /\ Len(requests[i]) = 1
            /\ requests[i][1].op = "editHyperdriveConfig"
            /\ LET a == call[i].args
                   params == requests[i][1].args[3]
               IN  /\ params.t = "object"
                   /\ "name" \in DOMAIN params.v <=> a.name.t # "undefined"
                   /\ a.name.t # "undefined" => params.v.name = a.name
                   /\ (a.name.t = "undefined" /\ AllCachingUndefined(a)) => DOMAIN params.v = {}

C14_Witness ==
    \E i \in DOMAIN pc :
        /\ pc[i] = "awaiting"
        /\ call[i].tool = "editHyperdriveConfig"
        /\ call[i].args.name = Str("")
        /\ call[i].args.cachingMaxAge = Num(60)
        /\ DOMAIN requests[i][1].args[3].v = {"name", "caching"}
        /\ requests[i][1].args[3].v.name = Str("")

\* The other case of C14: nothing supplied, empty params, request issued.
C14_EmptyParamsReached ==
    \E i \in DOMAIN pc :
        /\ pc[i] = "returned"
        /\ call[i].tool = "editHyperdriveConfig"
        /\ call[i].args.name = Undefined
        /\ AllCachingUndefined(call[i].args)
        /\ requests[i] = <<[op |-> "editHyperdriveConfig",
                           args |-> <<Str("acct"), Str("hd1"), Obj(<<>>)>>]>>
(***************************************************************************)
(* Overlapping invocations: each method call is its own activation, and    *)
(* the calls interleave at their awaits.                                   *)
(***************************************************************************)
ConcInvocations == {"i1", "i2", "i3"}

ConcEditArgs ==
    [accountId : {Str("acct")},
     hyperdriveId : {Str("hd1")},
     name : Optional({Str("hd")}),
     cachingDisabled : Optional({Bool(FALSE)}),
     cachingMaxAge : {Undefined},
     cachingStaleWhileRevalidate : {Undefined}]

ConcAcknowledgeArgs ==
    [accountId : {Str("acct")},
     queueId : {Str("q1")},
     acks : {Str(<<"[", "{", "\"lease_id\"", ":", "\"L1\"", "}", "]">>), Str(<<"not", "json">>)},
     retries : {Undefined, Str(<<"[", "{", "\"lease_id\"", ":", "\"L2\"", "}", "]">>)}]

ConcInvokeEditHyperdriveConfig(i) ==
    /\ pc[i] = "idle"
    /\ \E a \in ConcEditArgs :
           Start(i, "editHyperdriveConfig", a, editHyperdriveConfig(a))

ConcInvokeAcknowledgeQueueMessages(i) ==
    /\ pc[i] = "idle"
    /\ \E a \in ConcAcknowledgeArgs :
           Start(i, "acknowledgeQueueMessages", a, acknowledgeQueueMessages(a))

InitConc ==
    /\ pc = [i \in ConcInvocations |-> "idle"]
    /\ call = [i \in ConcInvocations |-> NoCall]
    /\ requests = [i \in ConcInvocations |-> <<>>]
    /\ response = [i \in ConcInvocations |-> Pending]
    /\ outcome = [i \in ConcInvocations |-> Pending]

NextConc ==
    \E i \in ConcInvocations :
        \/ InvokeListZones(i)
        \/ ConcInvokeEditHyperdriveConfig(i)
        \/ ConcInvokeAcknowledgeQueueMessages(i)
        \/ UpstreamResolves(i)
        \/ UpstreamRejects(i)
        \/ Finish(i)

SpecConc == InitConc /\ [][NextConc]_vars

\* Two invocations given the same tool and arguments dispatched the same
\* requests, and once their upstream calls settled alike they ended alike.
NonInterference ==
    \A i, j \in DOMAIN pc :
        (pc[i] # "idle" /\ pc[j] # "idle" /\ call[i] = call[j]) =>
            /\ requests[i] = requests[j]
            /\ (/\ pc[i] \in {"returned", "threw"}
                /\ pc[j] \in {"returned", "threw"}
                /\ response[i] = response[j])
               => (pc[i] = pc[j] /\ outcome[i] = outcome[j])

\* A step writes the state of one invocation only.
Frame ==
    \E i \in DOMAIN pc :
        \A j \in DOMAIN pc \ {i} :
            /\ pc'[j] = pc[j]
            /\ call'[j] = call[j]
            /\ requests'[j] = requests[j]
            /\ response'[j] = response[j]
            /\ outcome'[j] = outcome[j]

\* C11: under any interleaving of concurrent invocations, what an invocation
\* dispatches and returns depends only on its own arguments and its own
\* upstream response, and no step of one invocation changes another's state.
C11_Isolation == [][Frame /\ NonInterference']_vars

C11_Witness ==
    \E i, j, k \in DOMAIN pc :
        /\ pc[i] = "returned" /\ pc[j] = "awaiting" /\ pc[k] = "awaiting"
        /\ call[i].tool = "editHyperdriveConfig"
        /\ call[j].tool = "editHyperdriveConfig"
        /\ call[k] = call[i]
        /\ call[i].args.name = Undefined
        /\ call[j].args.name = Str("hd")
        /\ requests[k] = requests[i]
        /\ "name" \notin DOMAIN requests[k][1].args[3].v
        /\ "name" \in DOMAIN requests[j][1].args[3].v
=============================================================================
